---- MODULE Spec2Model ----
(***************************************************************************)
(* Model of the perturbation rollout of HetGPPO's evaluation utilities:    *)
(*   src/utils.py                        InjectMode, EvaluationUtils       *)
(*   src/evaluate/evaluate_resiliance.py adjacent_values,                  *)
(*                                       evaluate_resilience,              *)
(*                                       evaluate_increasing_noise         *)
(*                                                                         *)
(* Numbers are integers (fixed point).  A per-agent numpy array is         *)
(* modelled by one of its elements: np.random.uniform(size=shape), the     *)
(* in-place += and np.clip all act on each element independently.          *)
(* Arrays are objects: a tuple holds references into a heap, so that the   *)
(* difference between numpy's in-place `+=` (same object) and np.clip (a   *)
(* new object) is part of the model.                                       *)
(*                                                                         *)
(* SpecInject applies the injector once to every input of the bounded      *)
(* sets.  SpecViolin computes the statistics of one violin (sorted list,   *)
(* quartiles, adjacent values) for every reward list of the bounded sets.  *)
(* Spec runs rollout_episodes, called by a driver, by evaluate_resilience  *)
(* or by evaluate_increasing_noise, one statement group of the while loop  *)
(* at a time.                                                              *)
(* The environment and the policy are external: fixed stand-ins produce    *)
(* their observations, actions and rewards, the environment ends an        *)
(* episode when it likes (at the latest at max_steps) and is taken to      *)
(* return fresh arrays at every step.  A trajectory log holds references:  *)
(* an entry is the step whose tuple it refers to, and the value appended   *)
(* last is kept beside the log.                                            *)
(***************************************************************************)
EXTENDS Integers, Sequences, FiniteSets, TLC

\* Number of agents of the environment = length of an observation/action tuple.
NAgents == 2
\* Largest noise magnitude noise_delta.
MaxDelta == 1
\* Largest per-agent control bound u_range.
MaxURange == 2
\* Array elements range a little beyond the largest control bound.
MaxVal == MaxURange + 1

Vals == (0 - MaxVal)..MaxVal
\* Agent indices handed in as targets: the valid ones and one past the end.
TargetIndices == 0..NAgents

\* Largest n_episodes a caller asks for.
MaxEpisodes == 2
\* The environment's max_steps: it reports done at the latest after that many steps.
MaxSteps == 2
\* Largest number of checkpoints handed to evaluate_resilience.
MaxModels == 1
\* Longest reward list handed to the violin statistics.
MaxList == 4
\* Largest absolute episode reward of such a list.
MaxReward == 1
\* Fixed point of the statistics: the number 1 is Unit, so that quarters of a
\* difference of rewards (percentiles) and halves of those (the factor 1.5)
\* are integers.
Unit == 8

VARIABLES
    \* ---- injection configuration and environment (both specifications)
    inject_mode,        \* InjectMode member
    noise_delta,        \* noise magnitude
    agents_to_inject,   \* set of target agent indices
    u_range,            \* env.env.agents[k].u_range, as a sequence (index k+1)
    \* ---- one call of inject_function (SpecInject)
    x,                  \* the tuple passed in: a sequence of references
    heap0,              \* the arrays as they were when the call was made
    heap,               \* the arrays now
    ret,                \* the returned tuple (<<>> before the return or on error)
    status,             \* "ready", "returned", "AssertionError", "IndexError"
    \* ---- the statistics of one violin (SpecViolin)
    episode_rewards,    \* the reward list a rollout returned
    sorted_rewards,     \* `rewards` after rewards = sorted(rewards)
    quartiles,          \* <<quartile1, medians, quartile3>>
    whiskers,           \* <<lower, upper>> as adjacent_values returned them
    violin_pc,          \* "idle", "sort", "percentile", "adjacent_values", "drawn"
    \* ---- rollout_episodes: who calls, and its parameters
    caller,             \* "direct", "evaluate_resilience" or "evaluate_increasing_noise"
    pc,                 \* position in the code
    n_episodes, render, get_obs, get_actions, trainer, action_callback, inject,
    \* ---- rollout_episodes: locals
    inject_function_built,  \* whether the local inject_function is bound
    j, i, done,
    observation, action,
    reward_sum, rewards,
    frame_list, best_reward, best_gif,
    observations_this_episode, actions_this_episode,
    observations, actions,
    result,             \* the returned 4-tuple
    \* ---- what the collaborators saw (history variables)
    env_steps,          \* env.vector_step calls since the last vector_reset
    raw_observation,    \* the observation as the environment produced it
    queried_observation,\* the observation the policy was last queried with
    queried,            \* who was queried: "trainer" or "action_callback"
    logged_observation, \* the value last appended to observations_this_episode
    logged_action,      \* the value last appended to actions_this_episode
    stepped_action,     \* the action the environment was last stepped with
    step_ops,           \* what the current pass of the while loop has done, in order
    \* ---- evaluate_resilience
    n_checkpoints,      \* len(checkpoint_paths)
    n_episodes_per_model, compute_also_non_injected, plotting_mode,
    model_num,          \* index of the checkpoint being evaluated
    inject_todo,        \* what is left of `for inject in [...]`
    rewards_bef_and_after,
    runs,               \* history: the rollouts that returned to evaluate_resilience
    performance,        \* history: the performance-retention values, per checkpoint
    \* ---- evaluate_increasing_noise (its locals j, i, rewards and done carry
    \*      the prefix sweep_: the roller has locals of the same names)
    sweep_j,            \* index of the noise magnitude of the outer loop
    sweep_i,            \* index of the trainer of the inner loop
    sweep_rewards,      \* rewards[i, j]: one list per trainer and magnitude
    sweep_done,         \* done[i, j]
    sweep_calls         \* history: the rollouts that returned to the sweep

statVars == <<episode_rewards, sorted_rewards, quartiles, whiskers, violin_pc>>
injVars == <<x, heap0, heap, ret, status, statVars>>
cfgVars == <<inject_mode, noise_delta, agents_to_inject, u_range>>
argVars == <<n_episodes, render, get_obs, get_actions, trainer, action_callback, inject>>
epVars == <<i, done, observation, action, reward_sum, frame_list,
            observations_this_episode, actions_this_episode>>
outVars == <<inject_function_built, j, rewards, best_reward, best_gif,
             observations, actions, result>>
histVars == <<env_steps, raw_observation, queried_observation, queried,
              logged_observation, logged_action, stepped_action, step_ops>>
evalArgs == <<n_checkpoints, n_episodes_per_model, compute_also_non_injected,
              plotting_mode>>
resVars == <<model_num, inject_todo, rewards_bef_and_after, runs, performance>>
sweepVars == <<sweep_j, sweep_i, sweep_rewards, sweep_done, sweep_calls>>
evalVars == <<resVars, sweepVars>>
rollVars == <<caller, pc, argVars, epVars, outVars, histVars, evalArgs, evalVars>>
vars == <<cfgVars, injVars, rollVars>>

None == "None"
\* float("-inf"), below every reward; a finite best_reward r is <<r>>.
MinusInfinity == <<>>

\* src/utils.py:44-46
InjectMode == {"ACTION_NOISE", "OBS_NOISE"}

\* InjectMode.is_obs
is_obs(mode) == IF mode = "OBS_NOISE" THEN TRUE ELSE FALSE

\* InjectMode.is_action
is_action(mode) == IF mode = "ACTION_NOISE" THEN TRUE ELSE FALSE

----------------------------------------------------------------------------
\* numpy helpers

Min(a, b) == IF a <= b THEN a ELSE b
Max(a, b) == IF a >= b THEN a ELSE b

\* Mutant: the noise is drawn from twice the width.
DoubleDraws(delta) == (0 - 2 * delta)..(2 * delta)

\* The values np.random.uniform(-noise_delta, noise_delta) can return.
UniformDraws(delta) == (0 - delta)..delta

\* Mutant: the noise replaces the array instead of being added to it.
IAddOverwrites(h, ref, noise) == [h EXCEPT ![ref] = noise]

\* a[k] += noise on a numpy array: the array object itself is updated.
IAdd(h, ref, noise) == [h EXCEPT ![ref] = h[ref] + noise]

\* Mutant: no clamping.
ClipNothing(a, lo, hi) == a

\* np.clip(a, lo, hi) = minimum(maximum(a, lo), hi), a new array.
np_clip(a, lo, hi) == Min(Max(a, lo), hi)

\* Mutant: the size assertion is missing.
SizeUnchecked(indices, t) == TRUE

\* assert len(agent_indices) <= len(tuple)
SizeAssertion(indices, t) == Cardinality(indices) <= Len(t)

\* The orders in which `for agent_index in agent_indices` can visit a set.
IterationOrders(S) ==
    {o \in [1..Cardinality(S) -> S] : \A a, b \in DOMAIN o : a # b => o[a] # o[b]}

\* The values of the arrays a tuple refers to.
Deref(t, h) == [k \in DOMAIN t |-> h[t[k]]]

----------------------------------------------------------------------------
\* EvaluationUtils.__inject_noise_in_observation.  st = [lst, heap, status].

RECURSIVE ObservationLoop(_, _, _, _)
ObservationLoop(st, order, k, noise) ==
    IF k > Len(order) THEN st
    ELSE LET agent_index == order[k] IN
         IF agent_index >= Len(st.lst)
         THEN [st EXCEPT !.status = "IndexError"]
         ELSE ObservationLoop(
                [st EXCEPT !.heap = IAdd(st.heap, st.lst[agent_index + 1],
                                         noise[agent_index])],
                order, k + 1, noise)

inject_noise_in_observation(obs, h, agent_indices, order, noise) ==
    IF ~SizeAssertion(agent_indices, obs)
    THEN [status |-> "AssertionError", ret |-> <<>>, heap |-> h]
    ELSE LET fin == ObservationLoop(
                        [lst |-> obs, heap |-> h, status |-> "running"],
                        order, 1, noise)
         IN IF fin.status = "IndexError"
            THEN [status |-> "IndexError", ret |-> <<>>, heap |-> fin.heap]
            ELSE [status |-> "returned", ret |-> fin.lst, heap |-> fin.heap]

\* EvaluationUtils.__inject_noise_in_action.  agents = the u_range of each
\* env.env.agents[k].

\* One pass of the loop body for a valid index: += in place, then a clipped
\* copy takes the slot of the list.
ActionBody(st, agent_index, noise, agents) ==
    LET ref == st.lst[agent_index + 1]
        h1 == IAdd(st.heap, ref, noise)
    IN IF agent_index >= Len(agents)
       THEN [st EXCEPT !.heap = h1, !.status = "IndexError"]
       ELSE LET c == np_clip(h1[ref], 0 - agents[agent_index + 1],
                             agents[agent_index + 1])
            IN [st EXCEPT !.heap = Append(h1, c),
                          !.lst = [st.lst EXCEPT ![agent_index + 1] = Len(h1) + 1]]

RECURSIVE ActionLoop(_, _, _, _, _)
ActionLoop(st, order, k, noise, agents) ==
    IF k > Len(order) THEN st
    ELSE LET agent_index == order[k] IN
         IF agent_index >= Len(st.lst)
         THEN [st EXCEPT !.status = "IndexError"]
         ELSE LET st1 == ActionBody(st, agent_index, noise[agent_index], agents)
              IN IF st1.status = "IndexError" THEN st1
                 ELSE ActionLoop(st1, order, k + 1, noise, agents)

\* Mutant: every entry of the result is clamped, targeted or not.
RECURSIVE ClipAll(_, _, _)
ClipAll(st, k, agents) ==
    IF k > Len(st.lst) THEN st
    ELSE LET c == np_clip(st.heap[st.lst[k]], 0 - agents[k], agents[k])
         IN ClipAll([st EXCEPT !.heap = Append(st.heap, c),
                               !.lst = [st.lst EXCEPT ![k] = Len(st.heap) + 1]],
                    k + 1, agents)

inject_noise_in_action_clip_all(agent_actions, h, agent_indices, order, noise, agents) ==
    IF ~SizeAssertion(agent_indices, agent_actions)
    THEN [status |-> "AssertionError", ret |-> <<>>, heap |-> h]
    ELSE LET fin == ActionLoop(
                        [lst |-> agent_actions, heap |-> h, status |-> "running"],
                        order, 1, noise, agents)
         IN IF fin.status = "IndexError"
            THEN [status |-> "IndexError", ret |-> <<>>, heap |-> fin.heap]
            ELSE LET all == ClipAll(fin, 1, agents)
                 IN [status |-> "returned", ret |-> all.lst, heap |-> all.heap]

inject_noise_in_action(agent_actions, h, agent_indices, order, noise, agents) ==
    IF ~SizeAssertion(agent_indices, agent_actions)
    THEN [status |-> "AssertionError", ret |-> <<>>, heap |-> h]
    ELSE LET fin == ActionLoop(
                        [lst |-> agent_actions, heap |-> h, status |-> "running"],
                        order, 1, noise, agents)
         IN IF fin.status = "IndexError"
            THEN [status |-> "IndexError", ret |-> <<>>, heap |-> fin.heap]
            ELSE [status |-> "returned", ret |-> fin.lst, heap |-> fin.heap]

\* The closure get_inject_function returns, applied to a tuple.
inject_function(mode, t, h, agent_indices, order, noise, agents) ==
    IF mode = "ACTION_NOISE"
    THEN inject_noise_in_action(t, h, agent_indices, order, noise, agents)
    ELSE IF mode = "OBS_NOISE"
    THEN inject_noise_in_observation(t, h, agent_indices, order, noise)
    ELSE [status |-> "AssertionError", ret |-> <<>>, heap |-> h]

----------------------------------------------------------------------------
\* SpecInject: one call of the injector on every input of the bounded sets.

ConfigInit ==
    /\ inject_mode \in InjectMode
    /\ noise_delta \in 0..MaxDelta
    /\ agents_to_inject \in SUBSET TargetIndices
    /\ u_range \in [1..NAgents -> 1..MaxURange]

\* The rollout variables while no rollout runs.
RolloutIdle ==
    /\ caller = None /\ pc = "idle"
    /\ n_episodes = 0 /\ render = FALSE /\ get_obs = FALSE /\ get_actions = FALSE
    /\ trainer = None /\ action_callback = None /\ inject = FALSE
    /\ inject_function_built = FALSE
    /\ j = 0 /\ i = 0 /\ done = FALSE
    /\ observation = <<>> /\ action = <<>>
    /\ reward_sum = 0 /\ rewards = <<>>
    /\ frame_list = <<>> /\ best_reward = MinusInfinity /\ best_gif = None
    /\ observations_this_episode = <<>> /\ actions_this_episode = <<>>
    /\ observations = <<>> /\ actions = <<>>
    /\ result = None
    /\ env_steps = 0 /\ raw_observation = <<>> /\ queried_observation = <<>>
    /\ queried = None /\ logged_observation = <<>> /\ logged_action = <<>>
    /\ stepped_action = <<>> /\ step_ops = <<>>
    /\ n_checkpoints = 0 /\ n_episodes_per_model = 0
    /\ compute_also_non_injected = FALSE /\ plotting_mode = None
    /\ model_num = 0 /\ inject_todo = <<>> /\ rewards_bef_and_after = <<>>
    /\ runs = <<>> /\ performance = <<>>
    /\ sweep_j = 0 /\ sweep_i = 0 /\ sweep_rewards = <<>> /\ sweep_done = <<>>
    /\ sweep_calls = <<>>

\* The statistics variables while no violin is computed.
ViolinIdle ==
    /\ episode_rewards = <<>> /\ sorted_rewards = <<>> /\ quartiles = <<>>
    /\ whiskers = <<>> /\ violin_pc = "idle"

InitInject ==
    /\ ConfigInit
    /\ RolloutIdle
    /\ ViolinIdle
    /\ x = [k \in 1..NAgents |-> k]
    /\ heap0 \in [1..NAgents -> Vals]
    /\ heap = heap0
    /\ ret = <<>>
    /\ status = "ready"

ApplyInjector ==
    /\ status = "ready"
    /\ \E order \in IterationOrders(agents_to_inject) :
       \E noise \in [agents_to_inject -> UniformDraws(noise_delta)] :
          LET r == inject_function(inject_mode, x, heap, agents_to_inject,
                                   order, noise, u_range)
          IN /\ status' = r.status
             /\ ret' = r.ret
             /\ heap' = r.heap
    /\ UNCHANGED <<cfgVars, x, heap0, statVars, rollVars>>

NextInject == ApplyInjector

SpecInject == InitInject /\ [][NextInject]_vars

----------------------------------------------------------------------------
\* The statistics of one violin: evaluate_resilience, lines 110-127.

\* Python's sorted(): insertion of each element into the sorted rest.
RECURSIVE Insert(_, _)
Insert(v, s) ==
    IF s = <<>> THEN <<v>>
    ELSE IF v <= Head(s) THEN <<v>> \o s
    ELSE <<Head(s)>> \o Insert(v, Tail(s))

RECURSIVE sorted(_)
sorted(s) == IF s = <<>> THEN <<>> ELSE Insert(Head(s), sorted(Tail(s)))

\* np.percentile(a, q), default (linear) method: the element at the virtual
\* index (n - 1) * q / 100 of the sorted data, interpolated between its two
\* neighbours.
np_percentile(a, q) ==
    LET s == sorted(a)
        rank == (Len(s) - 1) * q
        below == rank \div 100
        above == Min(below + 1, Len(s) - 1)
    IN s[below + 1] + ((s[above + 1] - s[below + 1]) * (rank % 100)) \div 100

\* Mutant: the whiskers are not clipped.
adjacent_values_unclipped(vals, q1, q3) ==
    <<q1 - ((q3 - q1) * 3) \div 2, q3 + ((q3 - q1) * 3) \div 2>>

\* adjacent_values(vals, q1, q3), lines 23-29; returns <<lower, upper>>.
adjacent_values(vals, q1, q3) ==
    LET upper_adjacent_value == q3 + ((q3 - q1) * 3) \div 2
        lower_adjacent_value == q1 - ((q3 - q1) * 3) \div 2
    IN <<np_clip(lower_adjacent_value, vals[1], q1),
         np_clip(upper_adjacent_value, q3, vals[Len(vals)])>>

\* The rewards of the aggregation scenario: 10, 20, 30, 40, 50.
ScenarioRewards == [k \in 1..5 |-> 10 * k * Unit]

RewardValues == {v * Unit : v \in (0 - MaxReward)..MaxReward}

InitViolin ==
    /\ inject_mode = "OBS_NOISE"
    /\ noise_delta = 0
    /\ agents_to_inject = {}
    /\ u_range = [k \in 1..NAgents |-> 1]
    /\ RolloutIdle
    /\ x = <<>> /\ heap0 = <<>> /\ heap = <<>> /\ ret = <<>> /\ status = "idle"
    /\ episode_rewards \in
          {ScenarioRewards} \cup
          UNION {[1..n -> RewardValues] : n \in 1..MaxList}
    /\ sorted_rewards = <<>> /\ quartiles = <<>> /\ whiskers = <<>>
    /\ violin_pc = "sort"

\* rewards = sorted(rewards), line 110
ViolinSort ==
    /\ violin_pc = "sort"
    /\ sorted_rewards' = sorted(episode_rewards)
    /\ violin_pc' = "percentile"
    /\ UNCHANGED <<cfgVars, x, heap0, heap, ret, status, episode_rewards,
                   quartiles, whiskers, rollVars>>

\* quartile1, medians, quartile3 = np.percentile(rewards, [25, 50, 75]), line 125
ViolinPercentile ==
    /\ violin_pc = "percentile"
    /\ quartiles' = <<np_percentile(sorted_rewards, 25),
                      np_percentile(sorted_rewards, 50),
                      np_percentile(sorted_rewards, 75)>>
    /\ violin_pc' = "adjacent_values"
    /\ UNCHANGED <<cfgVars, x, heap0, heap, ret, status, episode_rewards,
                   sorted_rewards, whiskers, rollVars>>

\* whiskers = np.array([adjacent_values(rewards, quartile1, quartile3)]),
\* lines 126-127
ViolinAdjacentValues ==
    /\ violin_pc = "adjacent_values"
    /\ whiskers' = adjacent_values(sorted_rewards, quartiles[1], quartiles[3])
    /\ violin_pc' = "drawn"
    /\ UNCHANGED <<cfgVars, x, heap0, heap, ret, status, episode_rewards,
                   sorted_rewards, quartiles, rollVars>>

NextViolin ==
    \/ ViolinSort
    \/ ViolinPercentile
    \/ ViolinAdjacentValues

SpecViolin == InitViolin /\ [][NextViolin]_vars

----------------------------------------------------------------------------
\* The collaborators of rollout_episodes, as the values they can hand back.

\* env.vector_reset()[0] and obss[0]: one observation per agent, after s steps
\* of the episode.  The stand-in environment alternates each agent's
\* observation between 0 and 1, so that consecutive observations differ.
EnvObservation(s) == [k \in 1..NAgents |-> (s + k) % 2]
\* trainer.compute_single_action / action_callback: one action per agent.  The
\* stand-in policy answers an observation with twice its values, so that
\* actions depend on what the policy is shown and can leave the control range.
PolicyAction(o) == [k \in DOMAIN o |-> 2 * o[k]]
\* rews[0]: the stand-in environment pays 1 per step.
EnvReward(s) == 1

\* The environment's configured max_steps.
max_steps == MaxSteps

\* inject_function(x) on a tuple of fresh arrays: the values of the tuple it
\* returns, or the exception it ends in.
InjectValues(t, order, noise) ==
    LET r == inject_function(inject_mode, [k \in DOMAIN t |-> k], t,
                             agents_to_inject, order, noise, u_range)
    IN [status |-> r.status,
        value |-> IF r.status = "returned" THEN Deref(r.ret, r.heap) ELSE <<>>]

\* reward_sum > best_reward
Exceeds(a, b) == IF b = MinusInfinity THEN TRUE ELSE a > b[1]

\* The parameters of rollout_episodes; none has a default.
RolloutParams ==
    {"n_episodes", "render", "get_obs", "get_actions", "trainer",
     "action_callback", "env", "inject", "inject_mode", "agents_to_inject",
     "noise_delta"}

\* The keywords evaluate_resilience passes to rollout_episodes.
ResilienceCallKeywords ==
    {"n_episodes", "render", "get_obs", "get_actions", "trainer", "env",
     "inject", "inject_mode", "agents_to_inject", "noise_delta"}

\* The keywords evaluate_increasing_noise passes to rollout_episodes.
IncreasingNoiseCallKeywords ==
    {"n_episodes", "render", "get_obs", "get_actions", "trainer", "env",
     "inject", "inject_mode", "agents_to_inject", "noise_delta"}

\* noises = np.linspace(0, 2, 50): an increasing grid of magnitudes from 0 on,
\* here 0, 1, ..., MaxDelta.
noises == [k \in 1..(MaxDelta + 1) |-> k - 1]

\* Python's binding of a call: every parameter without default must be given.
MissingArguments(keywords) == RolloutParams \ keywords

\* Mutant: the injector is applied whenever the mode asks for it, whatever
\* `inject` says.
ShouldInjectWhateverFlag(inj, applies) == applies

\* `inject and inject_mode.is_obs()`, `inject and inject_mode.is_action()`:
\* lines 353 and 363.
ShouldInject(inj, applies) == inj /\ applies

\* Mutant: the check only asks for a chooser, not for exactly one.
AtLeastOneChooser(t, cb) == (t # None) \/ (cb # None)

\* assert (trainer is None) != (action_callback is None)
ExactlyOneChooser(t, cb) == (t = None) # (cb = None)

----------------------------------------------------------------------------
\* rollout_episodes, lines 293-340: the configuration check and the set-up.
\* t, cb, inj are the values bound to trainer, action_callback and inject.
EnterRollout(t, cb, inj) ==
    IF ~ExactlyOneChooser(t, cb)
    THEN /\ pc' = "AssertionError"
         /\ UNCHANGED <<epVars, outVars, histVars>>
    ELSE /\ pc' = "for"
         /\ inject_function_built' = inj
         /\ j' = 0
         /\ best_reward' = MinusInfinity
         /\ best_gif' = None
         /\ rewards' = <<>>
         /\ observations' = <<>>
         /\ actions' = <<>>
         /\ UNCHANGED <<result, epVars, histVars>>

\* A driver calls rollout_episodes with every parameter given.
DirectCall ==
    /\ pc = "call"
    /\ caller = "direct"
    /\ EnterRollout(trainer, action_callback, inject)
    /\ UNCHANGED <<cfgVars, injVars, caller, argVars, evalArgs, evalVars>>

\* Mutant: the per-episode logs are not emptied at the start of an episode.
EpisodeResetKeepsLogs ==
    /\ pc = "for"
    /\ j < n_episodes
    /\ frame_list' = IF render THEN <<0>> ELSE <<>>
    /\ reward_sum' = 0
    /\ observation' = EnvObservation(0)
    /\ raw_observation' = observation'
    /\ env_steps' = 0
    /\ i' = 0
    /\ done' = FALSE
    /\ step_ops' = <<>>
    /\ pc' = "while"
    /\ UNCHANGED <<cfgVars, injVars, caller, argVars, outVars, action,
                   observations_this_episode, actions_this_episode,
                   queried_observation, queried, logged_observation,
                   logged_action, stepped_action, evalArgs, evalVars>>

\* Mutant: the reward accumulator is not set to 0 at the start of an episode.
EpisodeResetKeepsReward ==
    /\ pc = "for"
    /\ j < n_episodes
    /\ frame_list' = IF render THEN <<0>> ELSE <<>>
    /\ observations_this_episode' = <<>>
    /\ actions_this_episode' = <<>>
    /\ observation' = EnvObservation(0)
    /\ raw_observation' = observation'
    /\ env_steps' = 0
    /\ i' = 0
    /\ done' = FALSE
    /\ step_ops' = <<>>
    /\ pc' = "while"
    /\ UNCHANGED <<cfgVars, injVars, caller, argVars, outVars, action,
                   reward_sum,
                   queried_observation, queried, logged_observation,
                   logged_action, stepped_action, evalArgs, evalVars>>

\* for j in range(n_episodes): lines 341-350
EpisodeReset ==
    /\ pc = "for"
    /\ j < n_episodes
    /\ frame_list' = IF render THEN <<0>> ELSE <<>>
    /\ observations_this_episode' = <<>>
    /\ actions_this_episode' = <<>>
    /\ reward_sum' = 0
    /\ observation' = EnvObservation(0)
    /\ raw_observation' = observation'
    /\ env_steps' = 0
    /\ i' = 0
    /\ done' = FALSE
    /\ step_ops' = <<>>
    /\ pc' = "while"
    /\ UNCHANGED <<cfgVars, injVars, caller, argVars, outVars, action,
                   queried_observation, queried, logged_observation,
                   logged_action, stepped_action, evalArgs, evalVars>>

\* while not done: i += 1; observation injection, lines 351-354.  The local
\* inject_function is bound only when `inject` was true (lines 299-308): its
\* use while unbound raises UnboundLocalError.
StepInjectObservation ==
    /\ pc = "while"
    /\ ~done
    /\ i' = i + 1
    /\ IF ~ShouldInject(inject, is_obs(inject_mode))
       THEN observation' = observation /\ step_ops' = <<>> /\ pc' = "log_obs"
       ELSE IF ~inject_function_built
       THEN /\ observation' = observation
            /\ step_ops' = <<>>
            /\ pc' = "UnboundLocalError"
       ELSE \E order \in IterationOrders(agents_to_inject) :
            \E noise \in [agents_to_inject -> UniformDraws(noise_delta)] :
               LET r == InjectValues(observation, order, noise)
               IN IF r.status = "returned"
                  THEN /\ observation' = r.value
                       /\ step_ops' = <<"inject_observation">>
                       /\ pc' = "log_obs"
                  ELSE /\ observation' = observation
                       /\ step_ops' = <<>>
                       /\ pc' = r.status
    /\ UNCHANGED <<cfgVars, injVars, caller, argVars, outVars,
                   env_steps, raw_observation, queried_observation, queried,
                   logged_observation, logged_action, stepped_action,
                   done, action, reward_sum, frame_list,
                   observations_this_episode, actions_this_episode,
                   evalArgs, evalVars>>

\* Mutant: the observation is logged as the environment produced it, as if
\* the logging came before the injection.
StepLogObservationRaw ==
    /\ pc = "log_obs"
    /\ IF get_obs
       THEN /\ observations_this_episode' = Append(observations_this_episode, i)
            /\ logged_observation' = raw_observation
            /\ step_ops' = Append(step_ops, "log_observation")
       ELSE UNCHANGED <<observations_this_episode, logged_observation, step_ops>>
    /\ pc' = "select"
    /\ UNCHANGED <<cfgVars, injVars, caller, argVars, outVars,
                   i, done, observation, action, reward_sum, frame_list,
                   actions_this_episode, env_steps, raw_observation,
                   queried_observation, queried, logged_action,
                   stepped_action, evalArgs, evalVars>>

\* if get_obs: observations_this_episode.append(observation), lines 355-356.
\* An entry of the log is the step whose observation tuple it holds; the
\* value appended is kept in logged_observation.
StepLogObservation ==
    /\ pc = "log_obs"
    /\ IF get_obs
       THEN /\ observations_this_episode' = Append(observations_this_episode, i)
            /\ logged_observation' = observation
            /\ step_ops' = Append(step_ops, "log_observation")
       ELSE UNCHANGED <<observations_this_episode, logged_observation, step_ops>>
    /\ pc' = "select"
    /\ UNCHANGED <<cfgVars, injVars, caller, argVars, outVars,
                   i, done, observation, action, reward_sum, frame_list,
                   actions_this_episode, env_steps, raw_observation,
                   queried_observation, queried, logged_action,
                   stepped_action, evalArgs, evalVars>>

\* lines 358-361
StepSelectAction ==
    /\ pc = "select"
    /\ action' = PolicyAction(observation)
    /\ queried_observation' = observation
    /\ queried' = IF trainer # None THEN "trainer" ELSE "action_callback"
    /\ step_ops' = Append(step_ops, "select_action")
    /\ pc' = "inject_action"
    /\ UNCHANGED <<cfgVars, injVars, caller, argVars, outVars,
                   i, done, observation, reward_sum, frame_list,
                   observations_this_episode, actions_this_episode,
                   env_steps, raw_observation, logged_observation,
                   logged_action, stepped_action, evalArgs, evalVars>>

\* lines 363-364
StepInjectAction ==
    /\ pc = "inject_action"
    /\ IF ~ShouldInject(inject, is_action(inject_mode))
       THEN action' = action /\ step_ops' = step_ops /\ pc' = "log_action"
       ELSE IF ~inject_function_built
       THEN /\ action' = action
            /\ step_ops' = step_ops
            /\ pc' = "UnboundLocalError"
       ELSE \E order \in IterationOrders(agents_to_inject) :
            \E noise \in [agents_to_inject -> UniformDraws(noise_delta)] :
               LET r == InjectValues(action, order, noise)
               IN IF r.status = "returned"
                  THEN /\ action' = r.value
                       /\ step_ops' = Append(step_ops, "inject_action")
                       /\ pc' = "log_action"
                  ELSE /\ action' = action
                       /\ step_ops' = step_ops
                       /\ pc' = r.status
    /\ UNCHANGED <<cfgVars, injVars, caller, argVars, outVars,
                   env_steps, raw_observation, queried_observation, queried,
                   logged_observation, logged_action, stepped_action,
                   i, done, observation, reward_sum, frame_list,
                   observations_this_episode, actions_this_episode,
                   evalArgs, evalVars>>

\* lines 365-366
StepLogAction ==
    /\ pc = "log_action"
    /\ IF get_actions
       THEN /\ actions_this_episode' = Append(actions_this_episode, i)
            /\ logged_action' = action
            /\ step_ops' = Append(step_ops, "log_action")
       ELSE UNCHANGED <<actions_this_episode, logged_action, step_ops>>
    /\ pc' = "env_step"
    /\ UNCHANGED <<cfgVars, injVars, caller, argVars, outVars,
                   i, done, observation, action, reward_sum, frame_list,
                   observations_this_episode, env_steps, raw_observation,
                   queried_observation, queried, logged_observation,
                   stepped_action, evalArgs, evalVars>>

\* obss, rews, ds, infos = env.vector_step([action]), lines 367-374.  The
\* environment reports done when it likes and at the latest at max_steps.
StepEnvironment ==
    /\ pc = "env_step"
    /\ stepped_action' = action
    /\ step_ops' = Append(step_ops, "env_step")
    /\ env_steps' = env_steps + 1
    /\ observation' = EnvObservation(env_steps + 1)
    /\ raw_observation' = observation'
    /\ reward_sum' = reward_sum + EnvReward(env_steps + 1)
    /\ done' \in IF env_steps + 1 >= max_steps THEN {TRUE} ELSE BOOLEAN
    /\ frame_list' = IF render THEN Append(frame_list, i) ELSE frame_list
    /\ pc' = "while"
    /\ UNCHANGED <<cfgVars, injVars, caller, argVars, outVars,
                   i, action, observations_this_episode, actions_this_episode,
                   queried_observation, queried, logged_observation,
                   logged_action, evalArgs, evalVars>>

\* lines 375-383
EpisodeEnd ==
    /\ pc = "while"
    /\ done
    /\ rewards' = Append(rewards, reward_sum)
    /\ IF Exceeds(reward_sum, best_reward)
       THEN best_reward' = <<reward_sum>> /\ best_gif' = frame_list
       ELSE UNCHANGED <<best_reward, best_gif>>
    /\ observations' = IF get_obs
                       THEN Append(observations, observations_this_episode)
                       ELSE observations
    /\ actions' = IF get_actions
                  THEN Append(actions, actions_this_episode)
                  ELSE actions
    /\ j' = j + 1
    /\ pc' = "for"
    /\ UNCHANGED <<cfgVars, injVars, caller, argVars, epVars, histVars,
                   inject_function_built, result, evalArgs, evalVars>>

RECURSIVE SumOf(_)
SumOf(s) == IF s = <<>> THEN 0 ELSE Head(s) + SumOf(Tail(s))

\* np.array(s).mean() and np.median(np.array(s)) of a list of whole rewards,
\* in fixed point (the mean rounded down to it).
np_mean(s) == (SumOf(s) * Unit) \div Len(s)
np_median(s) == np_percentile([k \in DOMAIN s |-> s[k] * Unit], 50)

\* (after / before) * 100, rounded down to a whole percentage.
PercentOf(after, before) == (after * 100) \div before

\* evaluate_resilience after a rollout returned rews, lines 107-183: the list
\* is kept; after the last `inject` of a checkpoint the performance mode reads
\* rewards_bef_and_after[0] and [1] and computes the two percentages; then
\* the next checkpoint.
ResilienceAfterRollout(rews) ==
    LET kept == Append(rewards_bef_and_after, rews)
        left == Tail(inject_todo)
    IN /\ UNCHANGED sweepVars
       /\ runs' = Append(runs, [model_num |-> model_num,
                                inject |-> Head(inject_todo),
                                rewards |-> rews])
       /\ inject_todo' = left
       /\ IF left # <<>>
          THEN /\ rewards_bef_and_after' = kept
               /\ model_num' = model_num
               /\ performance' = performance
               /\ pc' = "eval_for_inject"
          ELSE IF plotting_mode = "PERFORMANCE_MAINTEINED" /\ Len(kept) < 2
          THEN /\ rewards_bef_and_after' = kept
               /\ model_num' = model_num
               /\ performance' = performance
               /\ pc' = "IndexError"
          ELSE /\ rewards_bef_and_after' = kept
               /\ model_num' = model_num + 1
               /\ performance' =
                     IF plotting_mode = "PERFORMANCE_MAINTEINED"
                     THEN Append(performance,
                            [model_num |-> model_num,
                             mean_perf_after |->
                                PercentOf(np_mean(kept[2]), np_mean(kept[1])),
                             median_perf_after |->
                                PercentOf(np_median(kept[2]), np_median(kept[1]))])
                     ELSE performance
               /\ pc' = "eval_for_model"

\* evaluate_increasing_noise after a rollout returned (rews, _, obs, _),
\* lines 259-263: the cell [i, j] of both arrays is assigned, then the inner
\* loop goes to the next trainer, or the outer loop to the next magnitude.
IncreasingNoiseAfterRollout(rews, obs) ==
    LET len_obs == [k \in 1..Len(obs) |-> Len(obs[k])]
        flags == [k \in 1..Len(obs) |->
                     IF len_obs[k] < max_steps THEN 1 ELSE 0]
    IN /\ UNCHANGED resVars
       /\ sweep_rewards' = [sweep_rewards EXCEPT ![sweep_i + 1][sweep_j + 1] = rews]
       /\ sweep_done' = [sweep_done EXCEPT ![sweep_i + 1][sweep_j + 1] = flags]
       /\ sweep_calls' = Append(sweep_calls,
                                [i |-> sweep_i, j |-> sweep_j,
                                 noise_delta |-> noise_delta,
                                 inject |-> inject,
                                 rewards |-> rews, len_obs |-> len_obs])
       /\ IF sweep_i + 1 < n_checkpoints
          THEN sweep_i' = sweep_i + 1 /\ sweep_j' = sweep_j
          ELSE sweep_i' = 0 /\ sweep_j' = sweep_j + 1
       /\ pc' = "sweep_for"

\* range(n_episodes) is exhausted: lines 384-410.  np.max of an empty list
\* raises ValueError.
RolloutReturn ==
    /\ pc = "for"
    /\ j >= n_episodes
    /\ IF rewards = <<>>
       THEN /\ pc' = "ValueError"
            /\ UNCHANGED <<result, evalVars>>
       ELSE /\ result' = <<rewards,
                           IF render THEN best_gif ELSE None,
                           IF get_obs THEN observations ELSE None,
                           IF get_actions THEN actions ELSE None>>
            /\ IF caller = "evaluate_resilience"
               THEN ResilienceAfterRollout(rewards)
               ELSE IF caller = "evaluate_increasing_noise"
               THEN IncreasingNoiseAfterRollout(rewards, observations)
               ELSE pc' = "returned" /\ UNCHANGED evalVars
    /\ UNCHANGED <<cfgVars, injVars, caller, argVars, epVars, histVars,
                   inject_function_built, j, rewards, best_reward, best_gif,
                   observations, actions, evalArgs>>

----------------------------------------------------------------------------
\* evaluate_resilience

\* for model_num, checkpoint_path in enumerate(checkpoint_paths): lines 68-93.
\* The checkpoint's trainer and environment are restored.
ResilienceLoadCheckpoint ==
    /\ pc = "eval_for_model"
    /\ model_num < n_checkpoints
    /\ rewards_bef_and_after' = <<>>
    /\ inject_todo' = IF compute_also_non_injected
                      THEN <<FALSE, TRUE>> ELSE <<TRUE>>
    /\ pc' = "eval_for_inject"
    /\ UNCHANGED <<cfgVars, injVars, caller, argVars, epVars, outVars,
                   histVars, evalArgs, model_num, runs, performance,
                   sweepVars>>

\* EvaluationUtils.rollout_episodes(...), lines 95-106
ResilienceCallRollout ==
    /\ pc = "eval_for_inject"
    /\ inject_todo # <<>>
    /\ IF MissingArguments(ResilienceCallKeywords) # {}
       THEN /\ pc' = "TypeError"
            /\ UNCHANGED <<argVars, epVars, outVars, histVars>>
       ELSE /\ n_episodes' = n_episodes_per_model
            /\ render' = FALSE
            /\ get_obs' = FALSE
            /\ get_actions' = FALSE
            /\ trainer' = "trainer"
            /\ inject' = Head(inject_todo)
            /\ UNCHANGED action_callback
            /\ EnterRollout("trainer", action_callback, Head(inject_todo))
    /\ UNCHANGED <<cfgVars, injVars, caller, evalArgs, evalVars>>

\* The checkpoints are exhausted: the figure is drawn and saved, lines 185-211.
ResilienceFinish ==
    /\ pc = "eval_for_model"
    /\ model_num >= n_checkpoints
    /\ pc' = "eval_done"
    /\ UNCHANGED <<cfgVars, injVars, caller, argVars, epVars, outVars,
                   histVars, evalArgs, evalVars>>

----------------------------------------------------------------------------
\* evaluate_increasing_noise

\* lines 221-243: the grid of magnitudes, the two arrays of zeros of shape
\* (len(checkpoint_paths), len(noises), n_episodes_per_model), and one trainer
\* and one environment restored from each checkpoint.
IncreasingNoiseSetup ==
    /\ pc = "sweep_setup"
    /\ sweep_rewards' = [a \in 1..n_checkpoints |-> [b \in 1..Len(noises) |->
                             [k \in 1..n_episodes_per_model |-> 0]]]
    /\ sweep_done' = [a \in 1..n_checkpoints |-> [b \in 1..Len(noises) |->
                          [k \in 1..n_episodes_per_model |-> 0]]]
    /\ sweep_j' = 0
    /\ sweep_i' = 0
    /\ pc' = "sweep_for"
    /\ UNCHANGED <<cfgVars, injVars, caller, argVars, epVars, outVars,
                   histVars, evalArgs, resVars, sweep_calls>>

\* for j, noise in enumerate(noises): for i, trainer in enumerate(trainers):
\* EvaluationUtils.rollout_episodes(...), lines 244-257
IncreasingNoiseCallRollout ==
    /\ pc = "sweep_for"
    /\ sweep_j < Len(noises)
    /\ sweep_i < n_checkpoints
    /\ IF MissingArguments(IncreasingNoiseCallKeywords) # {}
       THEN /\ pc' = "TypeError"
            /\ UNCHANGED <<noise_delta, argVars, epVars, outVars, histVars>>
       ELSE /\ n_episodes' = n_episodes_per_model
            /\ render' = FALSE
            /\ get_obs' = TRUE
            /\ get_actions' = FALSE
            /\ trainer' = "trainer"
            /\ inject' = TRUE
            /\ noise_delta' = noises[sweep_j + 1]
            /\ UNCHANGED action_callback
            /\ EnterRollout("trainer", action_callback, TRUE)
    /\ UNCHANGED <<inject_mode, agents_to_inject, u_range, injVars, caller,
                   evalArgs, evalVars>>

\* Both loops are exhausted (at once when there is no trainer): the curves
\* are drawn and saved, lines 265-311.
IncreasingNoiseFinish ==
    /\ pc = "sweep_for"
    /\ sweep_j >= Len(noises) \/ n_checkpoints = 0
    /\ pc' = "sweep_done"
    /\ UNCHANGED <<cfgVars, injVars, caller, argVars, epVars, outVars,
                   histVars, evalArgs, evalVars>>

----------------------------------------------------------------------------
\* Spec: a driver calls rollout_episodes, or one of the batch evaluators runs.

InjectorIdle ==
    /\ x = <<>> /\ heap0 = <<>> /\ heap = <<>> /\ ret = <<>> /\ status = "idle"
    /\ ViolinIdle

LocalsInit ==
    /\ inject_function_built = FALSE
    /\ j = 0 /\ i = 0 /\ done = FALSE
    /\ observation = <<>> /\ action = <<>>
    /\ reward_sum = 0 /\ rewards = <<>>
    /\ frame_list = <<>> /\ best_reward = MinusInfinity /\ best_gif = None
    /\ observations_this_episode = <<>> /\ actions_this_episode = <<>>
    /\ observations = <<>> /\ actions = <<>>
    /\ result = None
    /\ env_steps = 0 /\ raw_observation = <<>> /\ queried_observation = <<>>
    /\ queried = None /\ logged_observation = <<>> /\ logged_action = <<>>
    /\ stepped_action = <<>> /\ step_ops = <<>>
    /\ model_num = 0 /\ inject_todo = <<>> /\ rewards_bef_and_after = <<>>
    /\ runs = <<>> /\ performance = <<>>
    /\ sweep_j = 0 /\ sweep_i = 0 /\ sweep_rewards = <<>> /\ sweep_done = <<>>
    /\ sweep_calls = <<>>

InitDirect ==
    /\ caller = "direct"
    /\ pc = "call"
    /\ n_episodes \in 0..MaxEpisodes
    /\ render \in BOOLEAN
    /\ get_obs \in BOOLEAN
    /\ get_actions \in BOOLEAN
    /\ trainer \in {None, "trainer"}
    /\ action_callback \in {None, "action_callback"}
    /\ inject \in BOOLEAN
    /\ n_checkpoints = 0 /\ n_episodes_per_model = 0
    /\ compute_also_non_injected = FALSE /\ plotting_mode = None

InitResilience ==
    /\ caller = "evaluate_resilience"
    /\ pc = "eval_for_model"
    /\ n_checkpoints \in 0..MaxModels
    /\ n_episodes_per_model \in 0..MaxEpisodes
    /\ compute_also_non_injected \in BOOLEAN
    /\ plotting_mode \in {"VIOLIN", "PERFORMANCE_MAINTEINED"}
    /\ n_episodes = 0 /\ render = FALSE /\ get_obs = FALSE /\ get_actions = FALSE
    /\ trainer = None /\ action_callback = None /\ inject = FALSE

InitIncreasingNoise ==
    /\ caller = "evaluate_increasing_noise"
    /\ pc = "sweep_setup"
    /\ n_checkpoints \in 0..MaxModels
    /\ n_episodes_per_model \in 0..MaxEpisodes
    /\ compute_also_non_injected = FALSE /\ plotting_mode = None
    /\ n_episodes = 0 /\ render = FALSE /\ get_obs = FALSE /\ get_actions = FALSE
    /\ trainer = None /\ action_callback = None /\ inject = FALSE

Init ==
    /\ inject_mode \in InjectMode
    /\ noise_delta \in 0..MaxDelta
    /\ agents_to_inject \in SUBSET TargetIndices
    /\ u_range = [k \in 1..NAgents |-> 1]
    /\ InjectorIdle
    /\ LocalsInit
    /\ (InitDirect \/ InitResilience \/ InitIncreasingNoise)

Next ==
    \/ DirectCall
    \/ EpisodeReset
    \/ StepInjectObservation
    \/ StepLogObservation
    \/ StepSelectAction
    \/ StepInjectAction
    \/ StepLogAction
    \/ StepEnvironment
    \/ EpisodeEnd
    \/ RolloutReturn
    \/ ResilienceLoadCheckpoint
    \/ ResilienceCallRollout
    \/ ResilienceFinish
    \/ IncreasingNoiseSetup
    \/ IncreasingNoiseCallRollout
    \/ IncreasingNoiseFinish

Spec == Init /\ [][Next]_vars

----------------------------------------------------------------------------
\* Properties of rollout_episodes and evaluate_resilience (checked under Spec)

Last(q) == q[Len(q)]
Abs(a) == IF a < 0 THEN 0 - a ELSE a
\* The control positions of one pass of the while loop after the observation
\* has been logged, and after the policy has been queried.
AfterObservationLog == {"select", "inject_action", "log_action", "env_step"}
AfterSelection == {"inject_action", "log_action", "env_step"}
ObservationInjected == inject /\ inject_mode = "OBS_NOISE"
ActionInjected == inject /\ inject_mode = "ACTION_NOISE"

\* C6: a call with both or neither of trainer and action_callback ends in an
\* error with the environment never reset or stepped and no episode run; with
\* exactly one supplied, every action is chosen by that one.
C6_ExactlyOneChooser ==
    (caller = "direct" /\ pc # "call") =>
        /\ ((trainer = None /\ action_callback = None)
              \/ (trainer # None /\ action_callback # None)) =>
                /\ pc = "AssertionError"
                /\ raw_observation = <<>> /\ env_steps = 0
                /\ j = 0 /\ rewards = <<>> /\ queried = None
        /\ (trainer # None /\ action_callback = None) =>
                queried \in {None, "trainer"}
        /\ (trainer = None /\ action_callback # None) =>
                queried \in {None, "action_callback"}

\* C6 witness: a call that supplied both a trainer and a callback has ended in
\* the assertion error.
C6_Witness ==
    /\ caller = "direct"
    /\ pc = "AssertionError"
    /\ trainer # None /\ action_callback # None
    /\ n_episodes > 0

\* C7: with collection enabled, a log's length equals the number of
\* environment steps of its episode at every pass of the loop (it counts the
\* step in progress once that step's entry is appended) and at the episode's
\* end; every episode takes between 1 and max_steps steps, and the returned
\* lists hold exactly n_episodes logs.
C7_LogLengthIsStepCount ==
    /\ pc = "while" =>
          /\ i = env_steps
          /\ get_obs => Len(observations_this_episode) = env_steps
          /\ get_actions => Len(actions_this_episode) = env_steps
          /\ done => (1 <= env_steps /\ env_steps <= max_steps)
    /\ (pc \in AfterObservationLog /\ get_obs) =>
          Len(observations_this_episode) = env_steps + 1
    /\ (pc = "env_step" /\ get_actions) =>
          Len(actions_this_episode) = env_steps + 1
    /\ (pc = "for" /\ j > 0) =>
          /\ env_steps >= 1
          /\ get_obs => /\ Len(observations) = j
                        /\ Len(Last(observations)) = env_steps
          /\ get_actions => /\ Len(actions) = j
                            /\ Len(Last(actions)) = env_steps
    /\ (pc = "returned" /\ get_obs) =>
          /\ Len(result[3]) = n_episodes
          /\ \A e \in 1..n_episodes :
                Len(result[3][e]) >= 1 /\ Len(result[3][e]) <= max_steps
    /\ (pc = "returned" /\ get_actions) =>
          /\ Len(result[4]) = n_episodes
          /\ \A e \in 1..n_episodes :
                Len(result[4][e]) >= 1 /\ Len(result[4][e]) <= max_steps

\* C7 witness: a rollout that collected both logs has returned after the
\* largest number of episodes, one of one step and one of max_steps steps.
C7_Witness ==
    /\ pc = "returned"
    /\ get_obs /\ get_actions
    /\ n_episodes = MaxEpisodes
    /\ \E e \in 1..n_episodes : Len(result[3][e]) = 1 /\ Len(result[4][e]) = 1
    /\ \E e \in 1..n_episodes :
          Len(result[3][e]) = max_steps /\ Len(result[4][e]) = max_steps

\* C8: with observation noise of magnitude noise_delta on the target set, the
\* observation logged at a step differs from the observation the environment
\* produced for that step by at most noise_delta for a targeted agent and
\* equals it for every other agent.
C8_LoggedObservationNearRaw ==
    (pc \in AfterObservationLog /\ ObservationInjected /\ get_obs) =>
        \A k \in DOMAIN raw_observation :
            IF (k - 1) \in agents_to_inject
            THEN Abs(logged_observation[k] - raw_observation[k]) <= noise_delta
            ELSE logged_observation[k] = raw_observation[k]

\* C8 witness: at the second step of the second episode agent 0 is logged at
\* the full distance noise_delta from its raw observation and agent 1 as is.
C8_Witness ==
    /\ pc = "select"
    /\ ObservationInjected /\ get_obs
    /\ agents_to_inject = {0}
    /\ noise_delta > 0
    /\ j = 1 /\ i = 2
    /\ Abs(logged_observation[1] - raw_observation[1]) = noise_delta
    /\ logged_observation[2] = raw_observation[2]

\* The operations one pass of the while loop performs under the call's
\* parameters, in the order of the claim.
StepOpEnabled(op) ==
    CASE op = "inject_observation" -> ObservationInjected
      [] op = "log_observation" -> get_obs
      [] op = "inject_action" -> ActionInjected
      [] op = "log_action" -> get_actions
      [] OTHER -> TRUE
ExpectedStepOps ==
    SelectSeq(<<"inject_observation", "log_observation", "select_action",
                "inject_action", "log_action", "env_step">>, StepOpEnabled)
IsPrefix(a, b) == Len(a) <= Len(b) /\ \A k \in 1..Len(a) : a[k] = b[k]

\* C9: each pass of the loop performs observation injection (observation mode
\* only), observation logging, action selection, action injection (action mode
\* only), action logging and the environment step in this order; the policy
\* is queried with the observation that is logged and the environment is
\* stepped with the action that is logged.
C9_StepOrder ==
    /\ pc \in {"while", "log_obs"} \cup AfterObservationLog =>
          IsPrefix(step_ops, ExpectedStepOps)
    /\ pc \in AfterSelection =>
          /\ queried_observation = observation
          /\ get_obs => logged_observation = queried_observation
          /\ ~ObservationInjected => queried_observation = raw_observation
    /\ (pc = "while" /\ env_steps >= 1) =>
          /\ step_ops = ExpectedStepOps
          /\ stepped_action = action
          /\ get_actions => logged_action = stepped_action
          /\ ~ActionInjected => stepped_action = PolicyAction(queried_observation)

\* C9 witness: a second pass in action mode with both logs enabled is
\* complete, and the environment was stepped with the logged, perturbed action.
C9_Witness ==
    /\ pc = "while" /\ env_steps = 2
    /\ ActionInjected /\ get_obs /\ get_actions
    /\ step_ops = <<"log_observation", "select_action", "inject_action",
                    "log_action", "env_step">>
    /\ stepped_action # PolicyAction(queried_observation)
    /\ logged_action = stepped_action

\* The values `inject` takes for one checkpoint of evaluate_resilience.
ExpectedInjects == IF compute_also_non_injected THEN <<FALSE, TRUE>> ELSE <<TRUE>>
Ended == pc \in {"returned", "eval_done", "sweep_done", "TypeError",
                 "AssertionError", "IndexError", "ValueError",
                 "UnboundLocalError"}

\* C10 (as claimed): evaluate_resilience, given at least one episode per model
\* and target agents that exist, runs the roller for each checkpoint in order,
\* without injection and then with it (with it only when
\* compute_also_non_injected is false), each run yielding exactly
\* n_episodes_per_model rewards; an episode starts only when the episodes
\* before it are finished and recorded.
C10_ResilienceRunsEveryEpisode ==
    /\ (pc = "while" /\ env_steps = 0) => Len(rewards) = j
    /\ (/\ caller = "evaluate_resilience"
        /\ Ended
        /\ n_episodes_per_model >= 1
        /\ agents_to_inject \subseteq 0..(NAgents - 1)
        /\ plotting_mode = "VIOLIN") =>
          /\ pc = "eval_done"
          /\ Len(runs) = n_checkpoints * Len(ExpectedInjects)
          /\ \A r \in 1..Len(runs) :
                /\ runs[r].model_num = (r - 1) \div Len(ExpectedInjects)
                /\ runs[r].inject =
                      ExpectedInjects[((r - 1) % Len(ExpectedInjects)) + 1]
                /\ Len(runs[r].rewards) = n_episodes_per_model

\* The total reward of an episode of n steps.
RECURSIVE EpisodeReward(_)
EpisodeReward(n) == IF n = 0 THEN 0 ELSE EpisodeReward(n - 1) + EnvReward(n)

\* C14 (as claimed): a batch evaluator's call to rollout_episodes never ends
\* in a TypeError for a parameter left unbound, and whenever the roller runs
\* for a batch evaluator exactly one of trainer and action_callback is set.
C14_EvaluatorCallsBindEveryParameter ==
    caller \in {"evaluate_resilience", "evaluate_increasing_noise"} =>
       /\ pc # "TypeError"
       /\ pc \in {"for", "while", "log_obs", "select", "inject_action",
                  "log_action", "env_step"} =>
             ExactlyOneChooser(trainer, action_callback)

\* The reward lists evaluate_resilience collected for checkpoint m with the
\* injection setting inj.
CollectedRewards(m, inj) ==
    {runs[r].rewards : r \in {q \in 1..Len(runs) :
                                 runs[q].model_num = m /\ runs[q].inject = inj}}

\* C15 (as claimed): evaluate_resilience in PERFORMANCE_MAINTEINED mode, for
\* either value of compute_also_non_injected, given at least one episode per
\* model and target agents that exist, never ends in an IndexError for a
\* reward list that was not collected: it finishes, and for every checkpoint
\* a reward list without and one with injection were collected and the
\* recorded values are the mean (median) with injection as a percentage of
\* the mean (median) without.
C15_RetentionFromBothRewardLists ==
    (/\ caller = "evaluate_resilience"
     /\ plotting_mode = "PERFORMANCE_MAINTEINED"
     /\ Ended
     /\ n_episodes_per_model >= 1
     /\ agents_to_inject \subseteq 0..(NAgents - 1)) =>
       /\ pc = "eval_done"
       /\ Len(performance) = n_checkpoints
       /\ \A p \in 1..Len(performance) :
             /\ performance[p].model_num = p - 1
             /\ \E before \in CollectedRewards(p - 1, FALSE) :
                \E after \in CollectedRewards(p - 1, TRUE) :
                   /\ performance[p].mean_perf_after * SumOf(before)
                         <= 100 * SumOf(after)
                   /\ 100 * SumOf(after)
                         < (performance[p].mean_perf_after + 1) * SumOf(before)
                   /\ performance[p].median_perf_after =
                         PercentOf(np_median(after), np_median(before))

\* C16: when rollout_episodes runs with inject = False, whatever inject_mode,
\* agents_to_inject and noise_delta are, no injector is built, no pass of the
\* loop applies one and the rollout fails neither for using an unbound
\* injector nor inside one; the policy is queried with exactly the
\* observation the environment returned and the environment is stepped with
\* exactly the action the policy chose for it.
C16_InjectOffLeavesRolloutUntouched ==
    ~inject =>
       /\ ~inject_function_built
       /\ pc \notin {"UnboundLocalError", "IndexError"}
       /\ pc = "AssertionError" => ~ExactlyOneChooser(trainer, action_callback)
       /\ \A k \in 1..Len(step_ops) :
             step_ops[k] \notin {"inject_observation", "inject_action"}
       /\ pc \in {"log_obs", "select"} => observation = raw_observation
       /\ pc \in {"inject_action", "log_action", "env_step"} =>
             /\ queried_observation = raw_observation
             /\ action = PolicyAction(raw_observation)
       /\ (pc = "while" /\ env_steps >= 1) =>
             /\ queried_observation = EnvObservation(env_steps - 1)
             /\ stepped_action = PolicyAction(EnvObservation(env_steps - 1))

\* A rollout of two episodes has returned with injection off, although the
\* action mode, a positive magnitude and a target set with an agent that
\* does not exist were handed in.
C16_Witness ==
    /\ ~inject
    /\ pc = "returned"
    /\ is_action(inject_mode)
    /\ noise_delta > 0
    /\ agents_to_inject = TargetIndices
    /\ Len(rewards) = 2
    /\ stepped_action = PolicyAction(queried_observation)

\* The names of the values rollout_episodes returns, in order: lines 405-410.
ReturnedNames == <<"rewards", "best_gif", "observations", "actions">>

RECURSIVE MaxOf(_)
MaxOf(s) == IF Len(s) = 1 THEN s[1] ELSE Max(s[1], MaxOf(Tail(s)))

SweepCallsOf(a, b) ==
    {c \in 1..Len(sweep_calls) : sweep_calls[c].i = a /\ sweep_calls[c].j = b}

\* C11 (as claimed): evaluate_increasing_noise, given at least one episode per
\* model and target agents that exist, finishes its sweep, and then for every
\* trainer index a and magnitude index b exactly one rollout was recorded in
\* cell [a, b]: it ran with injection on at magnitude noises[b], the cell of
\* rewards holds its per-episode total rewards, and the cell of done holds 1
\* for exactly the episodes that took fewer than max_steps steps.
C11_SweepFillsEveryCellOnce ==
    (/\ caller = "evaluate_increasing_noise"
     /\ Ended
     /\ n_episodes_per_model >= 1
     /\ agents_to_inject \subseteq 0..(NAgents - 1)) =>
       /\ pc = "sweep_done"
       /\ \A a \in 0..(n_checkpoints - 1) : \A b \in 0..(Len(noises) - 1) :
             /\ Cardinality(SweepCallsOf(a, b)) = 1
             /\ \A c \in SweepCallsOf(a, b) :
                   /\ sweep_calls[c].inject
                   /\ sweep_calls[c].noise_delta = noises[b + 1]
                   /\ Len(sweep_calls[c].rewards) = n_episodes_per_model
                   /\ sweep_rewards[a + 1][b + 1] = sweep_calls[c].rewards
                   /\ \A k \in 1..n_episodes_per_model :
                         /\ sweep_calls[c].rewards[k] =
                               EpisodeReward(sweep_calls[c].len_obs[k])
                         /\ sweep_done[a + 1][b + 1][k] =
                               IF sweep_calls[c].len_obs[k] < max_steps
                               THEN 1 ELSE 0

----------------------------------------------------------------------------
\* Properties of the injector (checked under SpecInject)

\* The agent indices of the target set that exist in the tuple, as positions.
TargetedPositions == {k \in DOMAIN x : (k - 1) \in agents_to_inject}

\* C1 (as claimed): after the injector has returned, every array of the input
\* tuple holds the values it held when the call was made, the arrays of
\* targeted agents included.
C1_InputNotMutated ==
    status = "returned" => \A k \in DOMAIN x : heap[x[k]] = heap0[x[k]]

\* C2: the returned tuple has the length of the input, and at every
\* non-targeted index it holds the very array of the input, with the values
\* that array had at the call (not perturbed, and not clipped in action mode).
C2_OnlyTargetedDiffer ==
    status = "returned" =>
        /\ Len(ret) = Len(x)
        /\ \A k \in DOMAIN x \ TargetedPositions :
              /\ ret[k] = x[k]
              /\ heap[ret[k]] = heap0[x[k]]

\* C2 witness: an action-mode call returned, one agent's entry was changed and
\* another, non-targeted, entry lies outside its agent's control range.
C2_Witness ==
    /\ status = "returned"
    /\ inject_mode = "ACTION_NOISE"
    /\ \E k \in TargetedPositions : heap[ret[k]] # heap0[x[k]]
    /\ \E k \in DOMAIN x \ TargetedPositions : heap0[x[k]] > u_range[k]

\* C3: in action mode every targeted agent's output lies within its own
\* [-u_range, u_range].
C3_TargetedActionWithinBounds ==
    (status = "returned" /\ inject_mode = "ACTION_NOISE") =>
        \A k \in TargetedPositions :
            /\ 0 - u_range[k] <= heap[ret[k]]
            /\ heap[ret[k]] <= u_range[k]

\* C3 witness: the input action was within range and input plus noise (left in
\* the input array by the in-place +=) is above it.
C3_Witness ==
    /\ status = "returned"
    /\ inject_mode = "ACTION_NOISE"
    /\ \E k \in TargetedPositions :
          /\ heap0[x[k]] <= u_range[k]
          /\ heap[x[k]] > u_range[k]
          /\ heap[ret[k]] = u_range[k]

\* C4 (as claimed): with noise_delta = 0 the output equals the input, in both
\* modes and for every input.
C4_ZeroNoiseIsIdentity ==
    (status = "returned" /\ noise_delta = 0) =>
        \A k \in DOMAIN x : heap[ret[k]] = heap0[x[k]]

\* C4 (amended): with noise_delta = 0 the output equals the input at every
\* index in observation mode and at every non-targeted index in action mode;
\* a targeted action is the input clamped to [-u_range, u_range], so it equals
\* the input exactly when the input lies within the agent's control range.
C4_ZeroNoiseClampsOnly ==
    (status = "returned" /\ noise_delta = 0) =>
        \A k \in DOMAIN x :
            LET v == heap0[x[k]] IN
            IF inject_mode = "ACTION_NOISE" /\ k \in TargetedPositions
            THEN /\ v > u_range[k] => heap[ret[k]] = u_range[k]
                 /\ v < 0 - u_range[k] => heap[ret[k]] = 0 - u_range[k]
                 /\ (0 - u_range[k] <= v /\ v <= u_range[k]) => heap[ret[k]] = v
            ELSE heap[ret[k]] = v

\* C4 witness: a zero-noise action-mode call on a targeted action outside the
\* control range, and one on a targeted action inside it.
C4_Witness ==
    /\ status = "returned"
    /\ noise_delta = 0
    /\ inject_mode = "ACTION_NOISE"
    /\ \E k \in TargetedPositions : heap0[x[k]] > u_range[k]
    /\ \E k \in TargetedPositions : heap0[x[k]] = u_range[k]

\* C5: with more targets than tuple entries the call ends in the assertion
\* error, with no array modified and no tuple returned.
C5_TooManyTargetsAborts ==
    (Cardinality(agents_to_inject) > Len(x) /\ status # "ready") =>
        /\ status = "AssertionError"
        /\ heap = heap0
        /\ ret = <<>>

\* C5 witness: three targets against the two-entry tuple ended in the
\* assertion error.
C5_Witness ==
    /\ status = "AssertionError"
    /\ Cardinality(agents_to_inject) = Len(x) + 1

\* C17 (as claimed): whenever the size precondition
\* len(agent_indices) <= len(tuple) holds, the injector returns a tuple of
\* the input's length; a target set with an index that is no position of the
\* tuple is rejected by the precondition check; and no call ends in an
\* out-of-range access.
C17_SizeCheckKeepsAccessesInRange ==
    status # "ready" =>
       /\ SizeAssertion(agents_to_inject, x) =>
             status = "returned" /\ Len(ret) = Len(x)
       /\ (\E agent_index \in agents_to_inject : agent_index >= Len(x)) =>
             status = "AssertionError"
       /\ status # "IndexError"

----------------------------------------------------------------------------
\* Properties of the violin statistics (checked under SpecViolin)

\* C12: for every non-empty reward list, once sorted, the quartiles satisfy
\* q1 <= q3 and adjacent_values returns lower = q1 - 1.5 * (q3 - q1) raised to
\* the smallest reward when it is below it, and upper = q3 + 1.5 * (q3 - q1)
\* lowered to the largest reward when it is above it, so that
\* min <= lower <= q1 and q3 <= upper <= max; for the rewards 10, 20, 30, 40,
\* 50 the quartiles are 20, 30 and 40.
C12_WhiskersWithinQuartilesAndExtremes ==
    violin_pc = "drawn" =>
       LET q1 == quartiles[1]
           q3 == quartiles[3]
           least == sorted_rewards[1]
           greatest == sorted_rewards[Len(sorted_rewards)]
           lower == whiskers[1]
           upper == whiskers[2]
       IN /\ \A k \in 1..(Len(sorted_rewards) - 1) :
                sorted_rewards[k] <= sorted_rewards[k + 1]
          /\ q1 <= q3
          /\ 2 * lower = IF 2 * q1 - 3 * (q3 - q1) < 2 * least
                         THEN 2 * least ELSE 2 * q1 - 3 * (q3 - q1)
          /\ 2 * upper = IF 2 * q3 + 3 * (q3 - q1) > 2 * greatest
                         THEN 2 * greatest ELSE 2 * q3 + 3 * (q3 - q1)
          /\ least <= lower /\ lower <= q1
          /\ q3 <= upper /\ upper <= greatest
          /\ episode_rewards = ScenarioRewards =>
                quartiles = <<20 * Unit, 30 * Unit, 40 * Unit>>

\* A list given out of order whose upper whisker lies strictly between the
\* third quartile and the largest reward, and whose lower whisker is clipped
\* to the smallest reward.
C12_Witness ==
    /\ violin_pc = "drawn"
    /\ episode_rewards # sorted_rewards
    /\ quartiles[1] < quartiles[3]
    /\ quartiles[3] < whiskers[2]
    /\ whiskers[2] < sorted_rewards[Len(sorted_rewards)]
    /\ whiskers[1] = sorted_rewards[1]
    /\ quartiles[1] - ((quartiles[3] - quartiles[1]) * 3) \div 2 < whiskers[1]

====
